---- MODULE Spec2Model ----
(***************************************************************************)
(* The value formatters of services/common/serializers/                    *)
(* formart_serializers.py: six serializer fields whose to_representation   *)
(* applies a formatter to a value, and whose to_internal_value returns its *)
(* data unchanged.                                                         *)
(*                                                                         *)
(* A Python str is a sequence of one-character strings.  A Python value is *)
(* a record whose field t names its type.  A call ends in an outcome: a    *)
(* returned str, or a raised exception named by its class.                 *)
(***************************************************************************)
EXTENDS Integers, Sequences, FiniteSets, TLC

VARIABLES
    zone,       \* the system local time zone of the process
    pc,         \* "idle", "called" (a call is running) or "returned"
    call,       \* the call in progress: its method, its field, its argument
    result,     \* the outcome of the call, once it has returned
    log         \* the completed calls with their outcomes, oldest first

vars == <<zone, pc, call, result, log>>

(***************************************************************************)
(* Text                                                                    *)
(***************************************************************************)
DigitChars == <<"0", "1", "2", "3", "4", "5", "6", "7", "8", "9">>

IsDigitChar(c) == \E i \in 1..10 : DigitChars[i] = c

DigitValue(c) == (CHOOSE i \in 1..10 : DigitChars[i] = c) - 1

DigitChar(d) == DigitChars[d + 1]

\* the characters of a digit sequence
DigitsText(ds) == [i \in 1..Len(ds) |-> DigitChar(ds[i])]

\* the digit sequence of a run of digit characters
TextDigits(s) == [i \in 1..Len(s) |-> DigitValue(s[i])]

\* n copies of c
Repeat(c, n) == [i \in 1..n |-> c]

Whitespace == {" ", "\t", "\n", "\r"}

\* str.strip()
Strip(s) ==
    LET black == {i \in 1..Len(s) : s[i] \notin Whitespace}
    IN  IF black = {} THEN <<>>
        ELSE SubSeq(s, CHOOSE i \in black : \A j \in black : i <= j,
                       CHOOSE i \in black : \A j \in black : i >= j)

NotUnderscore(c) == c # "_"

\* str.replace("_", "")
DropUnderscores(s) == SelectSeq(s, NotUnderscore)

LowerOf(c) ==
    CASE c = "N" -> "n" [] c = "A" -> "a" [] c = "S" -> "s" [] c = "I" -> "i"
      [] c = "F" -> "f" [] c = "T" -> "t" [] c = "Y" -> "y" [] c = "E" -> "e"
      [] OTHER -> c

\* str.lower(), on the letters the numeric syntax names
Lower(s) == [i \in 1..Len(s) |-> LowerOf(s[i])]

(***************************************************************************)
(* Unbounded naturals, as digit sequences with the most significant digit  *)
(* first (the coefficient of a decimal.Decimal is such a digit string)     *)
(***************************************************************************)
IsZero(ds) == \A i \in 1..Len(ds) : ds[i] = 0

\* the digits without their leading zeros; <<0>> for zero
StripZeros(ds) ==
    IF IsZero(ds) THEN <<0>>
    ELSE SubSeq(ds, CHOOSE i \in 1..Len(ds) :
                        ds[i] # 0 /\ \A j \in 1..(i - 1) : ds[j] = 0,
                    Len(ds))

RECURSIVE NatDigits(_)
NatDigits(n) ==
    IF n < 10 THEN <<n>> ELSE Append(NatDigits(n \div 10), n % 10)

RECURSIVE DigitsNat(_)
DigitsNat(ds) ==
    IF ds = <<>> THEN 0 ELSE DigitsNat(SubSeq(ds, 1, Len(ds) - 1)) * 10 + ds[Len(ds)]

\* ds + 1
Increment(ds) ==
    IF \A i \in 1..Len(ds) : ds[i] = 9
    THEN <<1>> \o Repeat(0, Len(ds))
    ELSE LET j == CHOOSE i \in 1..Len(ds) :
                      ds[i] # 9 /\ \A l \in (i + 1)..Len(ds) : ds[l] = 9
         IN  [i \in 1..Len(ds) |->
                 IF i < j THEN ds[i] ELSE IF i = j THEN ds[i] + 1 ELSE 0]

\* a natural as limbs of four digits, the least significant limb first
Limbs(ds) ==
    LET n      == (Len(ds) + 3) \div 4
        padded == Repeat(0, 4 * n - Len(ds)) \o ds
    IN  [j \in 1..n |-> DigitsNat(SubSeq(padded, 4 * (n - j) + 1, 4 * (n - j) + 4))]

LimbDigits(ls) ==
    LET n == Len(ls)
    IN  StripZeros([i \in 1..(4 * n) |->
            LET limb == ls[n - (i - 1) \div 4]
                pos  == (i - 1) % 4
            IN  CASE pos = 0 -> limb \div 1000
                  [] pos = 1 -> (limb \div 100) % 10
                  [] pos = 2 -> (limb \div 10) % 10
                  [] pos = 3 -> limb % 10])

\* ls * c + carry, for c < 10^5
RECURSIVE MulLimbs(_, _, _)
MulLimbs(ls, c, carry) ==
    IF ls = <<>>
    THEN (IF carry = 0 THEN <<>>
          ELSE <<carry % 10000>> \o MulLimbs(ls, c, carry \div 10000))
    ELSE LET p == Head(ls) * c + carry
         IN  <<p % 10000>> \o MulLimbs(Tail(ls), c, p \div 10000)

\* 5^k, for k <= 6
RECURSIVE Pow5(_)
Pow5(k) == IF k = 0 THEN 1 ELSE 5 * Pow5(k - 1)

\* ls * 5^k, six factors at a time
RECURSIVE MulPow5(_, _)
MulPow5(ls, k) ==
    IF k = 0 THEN ls
    ELSE IF k < 6 THEN MulLimbs(ls, Pow5(k), 0)
    ELSE MulPow5(MulLimbs(ls, Pow5(6), 0), k - 6)

(***************************************************************************)
(* decimal.Decimal: a sign (0 or 1), a coefficient and an exponent; a      *)
(* special value is marked "F" (infinity), "n" (NaN) or "N" (sNaN), the    *)
(* letters Decimal keeps in its exponent for them                          *)
(***************************************************************************)
\* the precision of the default decimal context, which the module never changes
Prec == 28

Dec(sign, int, exp) == [sign |-> sign, int |-> int, exp |-> exp, special |-> ""]

SpecialDec(sign, int, special) ==
    [sign |-> sign, int |-> int, exp |-> 0, special |-> special]

IsSpecial(d) == d.special # ""

Ok(v) == [ok |-> TRUE, v |-> v]

Raise(exc) == [ok |-> FALSE, exc |-> exc]

\* the index of the first character of s, from i on, that is not a digit
SpanDigits(s, i) ==
    CHOOSE j \in i..(Len(s) + 1) :
        /\ \A l \in i..(j - 1) : IsDigitChar(s[l])
        /\ (j = Len(s) + 1 \/ ~IsDigitChar(s[j]))

\* an infinity or a NaN, in any case: Inf, Infinity, NaN or sNaN with an
\* optional run of digits; anything else is decimal.InvalidOperation
SpecialFromStr(sign, low) ==
    IF low \in {<<"i", "n", "f">>, <<"i", "n", "f", "i", "n", "i", "t", "y">>}
    THEN Ok(SpecialDec(sign, <<0>>, "F"))
    ELSE LET sig  == low # <<>> /\ Head(low) = "s"
             nan  == IF sig THEN Tail(low) ELSE low
             diag == SubSeq(nan, 4, Len(nan))
         IN  IF /\ Len(nan) >= 3
                /\ SubSeq(nan, 1, 3) = <<"n", "a", "n">>
                /\ \A i \in 1..Len(diag) : IsDigitChar(diag[i])
             THEN Ok(SpecialDec(sign,
                                IF diag = <<>> THEN <<>>
                                ELSE StripZeros(TextDigits(diag)),
                                IF sig THEN "N" ELSE "n"))
             ELSE Raise("decimal.InvalidOperation")

\* the exponent E[+-]digits that body holds from i2 to i4 - 1, 0 when none
ExponentOf(body, i2, i4) ==
    IF i4 = i2 THEN 0
    ELSE IF body[i2 + 1] = "-"
    THEN 0 - DigitsNat(TextDigits(SubSeq(body, i2 + 2, i4 - 1)))
    ELSE IF body[i2 + 1] = "+"
    THEN DigitsNat(TextDigits(SubSeq(body, i2 + 2, i4 - 1)))
    ELSE DigitsNat(TextDigits(SubSeq(body, i2 + 1, i4 - 1)))

\* body is digits up to i1, then a fraction up to i2, then an exponent up to
\* i4: a number when it has a digit before its exponent, its exponent has a
\* digit, and nothing follows
NumberFromStr(sign, body, i1, i2, i4) ==
    IF /\ (i1 > 1 \/ i2 > i1 + 1)
       /\ (i4 > i2 => IsDigitChar(body[i4 - 1]))
       /\ i4 = Len(body) + 1
    THEN Ok(Dec(sign,
                StripZeros(TextDigits(SubSeq(body, 1, i1 - 1)
                                          \o SubSeq(body, i1 + 1, i2 - 1))),
                ExponentOf(body, i2, i4) - (IF i2 > i1 THEN i2 - i1 - 1 ELSE 0)))
    ELSE SpecialFromStr(sign, Lower(body))

\* the end of the exponent that starts at i2
ExponentEnd(body, i2) ==
    IF i2 <= Len(body) /\ body[i2] \in {"e", "E"}
    THEN (IF i2 + 1 <= Len(body) /\ body[i2 + 1] \in {"+", "-"}
          THEN SpanDigits(body, i2 + 2)
          ELSE SpanDigits(body, i2 + 1))
    ELSE i2

\* the end of the fraction that starts at i1
FractionEnd(body, i1) ==
    IF i1 <= Len(body) /\ body[i1] = "." THEN SpanDigits(body, i1 + 1) ELSE i1

FromFraction(sign, body, i1, i2) ==
    NumberFromStr(sign, body, i1, i2, ExponentEnd(body, i2))

FromInteger(sign, body, i1) == FromFraction(sign, body, i1, FractionEnd(body, i1))

FromBody(sign, body) == FromInteger(sign, body, SpanDigits(body, 1))

FromSigned(s) ==
    IF s # <<>> /\ Head(s) \in {"+", "-"}
    THEN FromBody(IF Head(s) = "-" THEN 1 ELSE 0, Tail(s))
    ELSE FromBody(0, s)

\* Decimal(str): the text, stripped and with its underscores removed, is an
\* optional sign, then digits with an optional fraction and exponent, or an
\* infinity or a NaN
DecimalFromStr(text) == FromSigned(DropUnderscores(Strip(text)))

\* Decimal(int)
DecimalFromInt(n) ==
    Dec(IF n < 0 THEN 1 ELSE 0, NatDigits(IF n < 0 THEN 0 - n ELSE n), 0)

\* Decimal(float): exact.  A finite float is sign * num / 2^k in lowest terms
\* (float.as_integer_ratio); its decimal is num * 5^k with exponent -k
DecimalFromFloat(f) == Dec(f.sign, LimbDigits(MulPow5(Limbs(f.num), f.k)), 0 - f.k)

\* decimal.Decimal(value)
Decimal(value) ==
    CASE value.t = "str"     -> DecimalFromStr(value.s)
      [] value.t = "int"     -> Ok(DecimalFromInt(value.n))
      [] value.t = "bool"    -> Ok(DecimalFromInt(IF value.b THEN 1 ELSE 0))
      [] value.t = "float"   -> Ok(DecimalFromFloat(value))
      [] value.t = "Decimal" -> Ok(value.d)
      [] OTHER               -> Raise("TypeError")

\* the rounding decision at a cut that keeps the first `keep` digits:
\* TRUE when the kept coefficient is to be incremented
RoundHalfUp(int, keep) == int[keep + 1] >= 5

ExactHalf(int, keep) ==
    /\ int[keep + 1] = 5
    /\ \A i \in (keep + 2)..Len(int) : int[i] = 0

RoundHalfEven(int, keep) ==
    IF ExactHalf(int, keep) /\ (keep = 0 \/ int[keep] % 2 = 0)
    THEN FALSE
    ELSE RoundHalfUp(int, keep)

\* the first `keep` digits of int, rounded on the rest
RoundedTo(int, keep, halfUp) ==
    IF (IF halfUp THEN RoundHalfUp(int, keep) ELSE RoundHalfEven(int, keep))
    THEN Increment(IF keep = 0 THEN <<0>> ELSE SubSeq(int, 1, keep))
    ELSE (IF keep = 0 THEN <<0>> ELSE SubSeq(int, 1, keep))

\* Decimal._rescale(exp, rounding) of a finite d; halfUp selects ROUND_HALF_UP,
\* otherwise ROUND_HALF_EVEN
Rescale(d, exp, halfUp) ==
    IF IsZero(d.int) THEN Dec(d.sign, <<0>>, exp)
    ELSE IF d.exp >= exp
    THEN Dec(d.sign, d.int \o Repeat(0, d.exp - exp), exp)
    ELSE IF Len(d.int) + d.exp - exp < 0
    THEN Dec(d.sign, RoundedTo(<<1>>, 0, halfUp), exp)
    ELSE Dec(d.sign, RoundedTo(d.int, Len(d.int) + d.exp - exp, halfUp), exp)

\* the rescaled value, when its coefficient fits the context precision
Fitting(ans) ==
    IF Len(ans.int) > Prec THEN Raise("decimal.InvalidOperation") ELSE Ok(ans)

\* Decimal.quantize(Decimal('.01'), rounding=ROUND_HALF_UP) in the default context
Quantize(d) ==
    IF d.special = "N" THEN Raise("decimal.InvalidOperation")
    ELSE IF d.special = "n" THEN Ok(d)
    ELSE IF d.special = "F" THEN Raise("decimal.InvalidOperation")
    ELSE IF IsZero(d.int) THEN Ok(Dec(d.sign, <<0>>, 0 - 2))
    ELSE IF Len(d.int) + d.exp + 2 > Prec THEN Raise("decimal.InvalidOperation")
    ELSE Fitting(Rescale(d, 0 - 2, TRUE))

\* a coefficient rounded to the precision that has grown a digit loses its last
Refit(sign, coeff, exp) ==
    IF Len(coeff) > Prec
    THEN Dec(sign, SubSeq(coeff, 1, Prec), exp + 1)
    ELSE Dec(sign, coeff, exp)

\* Decimal._fix: a coefficient longer than the context precision is rounded to
\* it, half-even
Fix(d) ==
    IF Len(d.int) <= Prec THEN d
    ELSE Refit(d.sign, RoundedTo(d.int, Prec, FALSE), d.exp + Len(d.int) - Prec)

\* Decimal * 100 in the default context
Times100(d) ==
    IF d.special = "N" THEN Raise("decimal.InvalidOperation")
    ELSE IF d.special = "n" THEN Ok(d)
    ELSE IF d.special = "F" THEN Ok(d)
    ELSE IF IsZero(d.int) THEN Ok(Dec(d.sign, <<0>>, d.exp))
    ELSE Ok(Fix(Dec(d.sign, d.int \o <<0, 0>>, d.exp)))

\* the digits of an integer part, in groups of three from the right
RECURSIVE GroupThousands(_)
GroupThousands(s) ==
    IF Len(s) <= 3 THEN s
    ELSE GroupThousands(SubSeq(s, 1, Len(s) - 3)) \o <<",">>
             \o SubSeq(s, Len(s) - 2, Len(s))

\* str(abs(d)) of a special d
SpecialText(d) ==
    IF d.special = "F" THEN <<"I", "n", "f", "i", "n", "i", "t", "y">>
    ELSE (IF d.special = "N" THEN <<"s">> ELSE <<>>) \o <<"N", "a", "N">>
             \o DigitsText(d.int)

\* the text of a coefficient of hundredths
FixedText(int, grouped) ==
    (IF Len(int) <= 2 THEN <<"0">>
     ELSE IF grouped THEN GroupThousands(DigitsText(SubSeq(int, 1, Len(int) - 2)))
     ELSE DigitsText(SubSeq(int, 1, Len(int) - 2)))
        \o <<".">>
        \o (IF Len(int) < 2 THEN <<"0">> \o DigitsText(int)
            ELSE DigitsText(SubSeq(int, Len(int) - 1, Len(int))))

\* Decimal.__format__ with '.2f' (grouped: ',.2f'): the value is rescaled to two
\* fractional digits under the context rounding, ROUND_HALF_EVEN
FormatF2(d, grouped) ==
    (IF d.sign = 1 THEN <<"-">> ELSE <<>>)
        \o (IF IsSpecial(d) THEN SpecialText(d)
            ELSE FixedText(Rescale(d, 0 - 2, FALSE).int, grouped))

(***************************************************************************)
(* str(value) and bool(value) of the Python values of the model            *)
(***************************************************************************)
\* "%0*d": the digits of n, zero-padded to a width
Padded(n, width) ==
    LET ds == DigitsText(NatDigits(n)) IN Repeat("0", width - Len(ds)) \o ds

IntText(n) == IF n < 0 THEN <<"-">> \o DigitsText(NatDigits(0 - n))
                       ELSE DigitsText(NatDigits(n))

\* Decimal.__str__: scientific notation when the exponent is positive or the
\* value has more than six leading fractional zeros
DecimalText(d) ==
    LET signText == IF d.sign = 1 THEN <<"-">> ELSE <<>>
    IN  IF IsSpecial(d) THEN signText \o SpecialText(d)
        ELSE LET n          == Len(d.int)
                 leftdigits == d.exp + n
                 dotplace   == IF d.exp <= 0 /\ leftdigits > 0 - 6
                               THEN leftdigits ELSE 1
                 intText    == DigitsText(d.int)
                 intpart    == IF dotplace <= 0 THEN <<"0">>
                               ELSE IF dotplace >= n
                               THEN intText \o Repeat("0", dotplace - n)
                               ELSE SubSeq(intText, 1, dotplace)
                 fracpart   == IF dotplace <= 0
                               THEN <<".">> \o Repeat("0", 0 - dotplace) \o intText
                               ELSE IF dotplace >= n THEN <<>>
                               ELSE <<".">> \o SubSeq(intText, dotplace + 1, n)
                 e          == leftdigits - dotplace
                 expText    == IF e = 0 THEN <<>>
                               ELSE <<"E", IF e < 0 THEN "-" ELSE "+">>
                                        \o IntText(IF e < 0 THEN 0 - e ELSE e)
             IN  signText \o intpart \o fracpart \o expText

\* timedelta.__str__: "[D day[s], ]H:MM:SS"; days and seconds are normalised,
\* 0 <= seconds < 86400, so a negative interval has negative days
TimedeltaText(v) ==
    LET mm   == v.seconds \div 60
        days == IF v.days < 0 THEN 0 - v.days ELSE v.days
    IN  (IF v.days = 0 THEN <<>>
         ELSE IntText(v.days) \o <<" ", "d", "a", "y">>
                  \o (IF days # 1 THEN <<"s">> ELSE <<>>) \o <<",", " ">>)
            \o IntText(mm \div 60) \o <<":">> \o Padded(mm % 60, 2)
            \o <<":">> \o Padded(v.seconds % 60, 2)

DateText(v) ==
    Padded(v.year, 4) \o <<"-">> \o Padded(v.month, 2) \o <<"-">> \o Padded(v.day, 2)

\* datetime.__str__: isoformat(sep=' '); the model's timestamps have whole minutes
DatetimeText(v) ==
    LET off == IF v.utcoffset < 0 THEN 0 - v.utcoffset ELSE v.utcoffset
    IN  DateText(v) \o <<" ">> \o Padded(v.hour, 2) \o <<":">> \o Padded(v.minute, 2)
            \o <<":", "0", "0">>
            \o (IF v.aware
                THEN <<IF v.utcoffset < 0 THEN "-" ELSE "+">> \o Padded(off \div 60, 2)
                         \o <<":">> \o Padded(off % 60, 2)
                ELSE <<>>)

\* str(value)
Str(value) ==
    CASE value.t = "str"       -> value.s
      [] value.t = "int"       -> IntText(value.n)
      [] value.t = "bool"      -> IF value.b THEN <<"T", "r", "u", "e">>
                                             ELSE <<"F", "a", "l", "s", "e">>
      [] value.t = "NoneType"  -> <<"N", "o", "n", "e">>
      [] value.t = "float"     -> value.repr
      [] value.t = "Decimal"   -> DecimalText(value.d)
      [] value.t = "datetime"  -> DatetimeText(value)
      [] value.t = "date"      -> DateText(value)
      [] value.t = "timedelta" -> TimedeltaText(value)

\* bool(value): the truth value an `if` tests
Truthy(value) ==
    CASE value.t = "str"       -> value.s # <<>>
      [] value.t = "int"       -> value.n # 0
      [] value.t = "bool"      -> value.b
      [] value.t = "NoneType"  -> FALSE
      [] value.t = "float"     -> ~IsZero(value.num)
      [] value.t = "Decimal"   -> IsSpecial(value.d) \/ ~IsZero(value.d.int)
      [] value.t = "datetime"  -> TRUE
      [] value.t = "date"      -> TRUE
      [] value.t = "timedelta" -> value.days # 0 \/ value.seconds # 0

(***************************************************************************)
(* datetime: the proleptic Gregorian calendar, and the system local zone   *)
(***************************************************************************)
IsLeap(y) == y % 4 = 0 /\ (y % 100 # 0 \/ y % 400 = 0)

DaysInMonth(y, m) ==
    IF m = 2 THEN (IF IsLeap(y) THEN 29 ELSE 28)
    ELSE IF m \in {4, 6, 9, 11} THEN 30 ELSE 31

RECURSIVE DaysBeforeMonth(_, _)
DaysBeforeMonth(y, m) ==
    IF m = 1 THEN 0 ELSE DaysBeforeMonth(y, m - 1) + DaysInMonth(y, m - 1)

DaysBeforeYear(y) ==
    (y - 1) * 365 + (y - 1) \div 4 - (y - 1) \div 100 + (y - 1) \div 400

\* the ordinal of a day, 1 for 0001-01-01
Ymd2Ord(y, m, d) == DaysBeforeYear(y) + DaysBeforeMonth(y, m) + d

\* the day of an ordinal
Ord2Ymd(ordinal) ==
    LET n0   == ordinal - 1
        n400 == n0 \div 146097
        r400 == n0 % 146097
        n100 == r400 \div 36524
        r100 == r400 % 36524
        n4   == r100 \div 1461
        r4   == r100 % 1461
        n1   == r4 \div 365
        n    == r4 % 365
        y    == n400 * 400 + 1 + n100 * 100 + n4 * 4 + n1
        m0   == (n + 50) \div 32
        p0   == DaysBeforeMonth(y, m0)
        m    == IF p0 > n THEN m0 - 1 ELSE m0
        p    == DaysBeforeMonth(y, m)
    IN  IF n1 = 4 \/ n100 = 4
        THEN [year |-> y - 1, month |-> 12, day |-> 31]
        ELSE [year |-> y, month |-> m, day |-> n - p + 1]

\* the wall clock of a timestamp, in minutes from 0001-01-01 00:00
WallMinutes(v) ==
    (Ymd2Ord(v.year, v.month, v.day) - 1) * 1440 + v.hour * 60 + v.minute

\* the UTC offset of the local zone at the instant u (minutes, UTC): a zone has a
\* standard offset, and a summer offset from its start to its end
UtcOffsetAt(z, u) == IF z.start <= u /\ u < z.end THEN z.dst ELSE z.std

\* the instant u1 or u2 at which the local clock shows t, u1 being t less the
\* offset a, and u2 t less the offset b found on the other side of a transition
Settle(t, fold, z, a, b, u1, u2) ==
    IF u1 + UtcOffsetAt(z, u1) = t /\ a = b THEN u1
    ELSE IF u2 + UtcOffsetAt(z, u2) = t THEN u2
    ELSE IF u1 + UtcOffsetAt(z, u1) = t THEN u1
    ELSE IF fold = 1 THEN (IF u1 < u2 THEN u1 ELSE u2)
    ELSE (IF u1 > u2 THEN u1 ELSE u2)

OtherOffset(t, fold, z, a, b) == Settle(t, fold, z, a, b, t - a, t - b)

FirstOffset(t, fold, z, a) ==
    OtherOffset(t, fold, z, a,
                IF (t - a) + UtcOffsetAt(z, t - a) = t
                THEN UtcOffsetAt(z, IF fold = 1 THEN t - a + 1440 ELSE t - a - 1440)
                ELSE UtcOffsetAt(z, t - a))

\* the instant at which the local clock shows t (datetime's local_to_seconds):
\* a reading that a transition skips or repeats is settled by fold
LocalToInstant(t, fold, z) == FirstOffset(t, fold, z, UtcOffsetAt(z, t))

\* the datetime of the local zone whose wall clock is `local` minutes
LocalDatetime(local, ymd, offset) ==
    IF local < 0 \/ ymd.year > 9999 THEN Raise("OverflowError")
    ELSE Ok([t |-> "datetime", year |-> ymd.year, month |-> ymd.month,
             day |-> ymd.day, hour |-> (local % 1440) \div 60,
             minute |-> local % 60, fold |-> 0,
             aware |-> TRUE, utcoffset |-> offset])

AtOffset(utc, offset) ==
    LocalDatetime(utc + offset, Ord2Ymd((utc + offset) \div 1440 + 1), offset)

FromUtc(utc, z) == AtOffset(utc, UtcOffsetAt(z, utc))

ToUtc(v, wall, z) ==
    IF v.aware THEN wall - v.utcoffset
    ELSE wall - UtcOffsetAt(z, LocalToInstant(wall, v.fold, z))

\* datetime.astimezone() with no argument: the same instant in the system
\* local zone.  A timestamp without tzinfo is taken to be local time.
AsTimezone(v, z) == FromUtc(ToUtc(v, WallMinutes(v), z), z)

MonthAbbr ==
    << <<"J", "a", "n">>, <<"F", "e", "b">>, <<"M", "a", "r">>, <<"A", "p", "r">>,
       <<"M", "a", "y">>, <<"J", "u", "n">>, <<"J", "u", "l">>, <<"A", "u", "g">>,
       <<"S", "e", "p">>, <<"O", "c", "t">>, <<"N", "o", "v">>, <<"D", "e", "c">> >>

\* strftime('%b %d %Y at %I:%M %p') in the C locale, for a year of four digits
Strftime(v) ==
    LET hour12 == IF v.hour % 12 = 0 THEN 12 ELSE v.hour % 12
    IN  MonthAbbr[v.month] \o <<" ">> \o Padded(v.day, 2) \o <<" ">>
            \o DigitsText(NatDigits(v.year)) \o <<" ", "a", "t", " ">>
            \o Padded(hour12, 2) \o <<":">> \o Padded(v.minute, 2) \o <<" ">>
            \o (IF v.hour < 12 THEN <<"A", "M">> ELSE <<"P", "M">>)

(***************************************************************************)
(* The formatters                                                          *)
(***************************************************************************)
\* each statement of a formatter runs on the value of the statement before it,
\* unless that one has raised an exception, which ends the call
Quantized(amount) == IF amount.ok THEN Quantize(amount.v) ELSE amount

Dollars(amount) ==
    IF amount.ok THEN Ok(<<"$">> \o FormatF2(amount.v, TRUE)) ELSE amount

\* MonetaryFieldSerializer.formatter
MonetaryFieldSerializer_formatter(value) ==
    Dollars(Quantized(Decimal(value)))

Rendered(local) == Ok(Strftime(local))

RenderedLocal(local) == IF local.ok THEN Rendered(local.v) ELSE local

\* a rendering of the clock that the value shows in its own zone; C7 fails of it
WithoutConversion(value, z) ==
    IF value.t = "datetime" THEN Rendered(value)
    ELSE IF value.t = "date"
    THEN Rendered([year |-> value.year, month |-> value.month,
                   day |-> value.day, hour |-> 0, minute |-> 0])
    ELSE Raise("AttributeError")

\* DateFieldSerializer.formatter
DateFieldSerializer_formatter(value, z) ==
    IF value.t = "datetime" THEN RenderedLocal(AsTimezone(value, z))
    ELSE IF value.t = "date"
    THEN Rendered([year |-> value.year, month |-> value.month,
                   day |-> value.day, hour |-> 0, minute |-> 0])
    ELSE Raise("AttributeError")

\* a masking that leaves the last character readable; C6 fails of it
MaskedButLast(value) ==
    Ok(IF Str(value) = <<>> THEN <<>>
       ELSE Repeat("*", Len(Str(value)) - 1) \o <<Str(value)[Len(Str(value))]>>)

\* MaskedFieldSerializer.formatter
MaskedFieldSerializer_formatter(value) == Ok(Repeat("*", Len(Str(value))))

Hundredfold(ratio) == IF ratio.ok THEN Times100(ratio.v) ELSE ratio

Percent(percentage) ==
    IF percentage.ok THEN Ok(FormatF2(percentage.v, FALSE) \o <<"%">>)
    ELSE percentage

\* PercentageFieldSerializer.formatter
PercentageFieldSerializer_formatter(value) ==
    Percent(Hundredfold(Decimal(value)))

\* a rendering that reads the texts "false", "0" and "no" as the flag false; C9
\* fails of it
BooleanOfText(value) ==
    Ok(IF /\ Truthy(value)
          /\ ~(/\ value.t = "str"
               /\ value.s \in {<<"f", "a", "l", "s", "e">>, <<"0">>, <<"n", "o">>})
       THEN <<"T", "r", "u", "e">>
       ELSE <<"F", "a", "l", "s", "e">>)

\* BooleanFieldSerializer.formatter
BooleanFieldSerializer_formatter(value) ==
    Ok(IF Truthy(value) THEN <<"T", "r", "u", "e">>
                        ELSE <<"F", "a", "l", "s", "e">>)

\* DurationFieldSerializer.formatter
DurationFieldSerializer_formatter(value) == Ok(Str(value))

\* the method resolved as self.formatter for a field of the kind; the base
\* class FormattedFieldSerializer ("formatted") has none
Formatter(kind, value, z) ==
    CASE kind = "monetary"   -> MonetaryFieldSerializer_formatter(value)
      [] kind = "date"       -> DateFieldSerializer_formatter(value, z)
      [] kind = "masked"     -> MaskedFieldSerializer_formatter(value)
      [] kind = "percentage" -> PercentageFieldSerializer_formatter(value)
      [] kind = "boolean"    -> BooleanFieldSerializer_formatter(value)
      [] kind = "duration"   -> DurationFieldSerializer_formatter(value)

\* FormattedFieldSerializer.to_representation
to_representation(kind, value, z) ==
    IF kind = "formatted" THEN Raise("NotImplementedError")
    ELSE Formatter(kind, value, z)

\* FormattedFieldSerializer.to_internal_value
to_internal_value(data) == Ok(data)

(***************************************************************************)
(* The values the fields are given                                         *)
(***************************************************************************)
\* the longest text over Alphabet given to a field
MaxLen == 3

\* the most digits of a coefficient over CoeffDigits
MaxCoeffLen == 3

\* the most calls of one run of SpecCalls
MaxCalls == 3

FormatterKinds ==
    {"monetary", "date", "masked", "percentage", "boolean", "duration"}

Kinds == FormatterKinds \cup {"formatted"}

StrValue(s) == [t |-> "str", s |-> s]

IntValue(n) == [t |-> "int", n |-> n]

BoolValue(b) == [t |-> "bool", b |-> b]

None == [t |-> "NoneType"]

DecimalValue(d) == [t |-> "Decimal", d |-> d]

Float(sign, num, k, repr) ==
    [t |-> "float", sign |-> sign, num |-> num, k |-> k, repr |-> repr]

Timedelta(days, seconds) == [t |-> "timedelta", days |-> days, seconds |-> seconds]

Date(y, m, d) == [t |-> "date", year |-> y, month |-> m, day |-> d]

\* a datetime without tzinfo
Naive(y, m, d, hour, minute, fold) ==
    [t |-> "datetime", year |-> y, month |-> m, day |-> d, hour |-> hour,
     minute |-> minute, fold |-> fold, aware |-> FALSE, utcoffset |-> 0]

\* a datetime whose tzinfo is a fixed UTC offset, in minutes
Aware(y, m, d, hour, minute, utcoffset) ==
    [t |-> "datetime", year |-> y, month |-> m, day |-> d, hour |-> hour,
     minute |-> minute, fold |-> 0, aware |-> TRUE, utcoffset |-> utcoffset]

Alphabet == {"s", "*", "0"}

Texts == UNION {[1..n -> Alphabet] : n \in 0..MaxLen}

NamedTexts ==
    { <<"s", "e", "c", "r", "e", "t">>, <<"f", "a", "l", "s", "e">>, <<"n", "o">>,
      <<"T", "r", "u", "e">>, <<"a", "b", "c">>, <<"1", "2", "a">>, <<"-">>, <<".">>,
      <<"1", ".">>, <<".", "5">>, <<"1", "e">>, <<"+", "7">>, <<" ", "1", "2", " ">>,
      <<"1", "_", "0", "0", "0">>, <<"N", "a", "N">>, <<"I", "n", "f">>,
      <<"2", ".", "0", "0", "5">>, <<"1", "2", "3", "4", ".", "5", "6", "5">>,
      <<"0", ".", "4", "5", "6", "7">>, <<"2", "0", "2", "4", "-", "0", "3", "-", "0", "5">> }

Ints == {0, 1, 0 - 1, 7, 12345, 0 - 45}

CoeffDigits == {0, 4, 5, 9}

Coefficients ==
    {StripZeros(c) : c \in UNION {[1..n -> CoeffDigits] : n \in 1..MaxCoeffLen}}

Exponents == {0 - 5, 0 - 3, 0 - 2, 0, 1, 25, 26}

\* 2.005, 1234.565, 0.00125, 0.4567, 99999999999999999999999999.995 and two
\* values of more digits than the context precision
LongDecimals ==
    { Dec(0, <<2, 0, 0, 5>>, 0 - 3), Dec(0, <<1, 2, 3, 4, 5, 6, 5>>, 0 - 3),
      Dec(0, <<1, 2, 5>>, 0 - 5), Dec(0, <<4, 5, 6, 7>>, 0 - 4),
      Dec(0, Repeat(9, 28) \o <<5>>, 0 - 3),
      Dec(1, Repeat(1, 27) \o <<2, 5>>, 0 - 29),
      Dec(0, Repeat(1, 27) \o <<2, 5, 0, 1>>, 0 - 31) }

Decimals ==
    {Dec(sign, c, e) : sign \in {0, 1}, c \in Coefficients, e \in Exponents}
        \cup LongDecimals

\* the floats 2.005, 1234.565, 2.675, 0.5, 0.125, 0.0, 0.00125, 0.4567, -2.005
\* and 1e+26, each as float.as_integer_ratio gives it, with its repr
Floats ==
    { Float(0, <<2, 2, 5, 7, 4, 2, 9, 3, 1, 3, 2, 1, 9, 4, 6, 1>>, 50,
            <<"2", ".", "0", "0", "5">>),
      Float(0, <<2, 7, 1, 4, 8, 3, 7, 1, 4, 5, 4, 9, 0, 5, 5, 5>>, 41,
            <<"1", "2", "3", "4", ".", "5", "6", "5">>),
      Float(0, <<3, 0, 1, 1, 7, 8, 2, 2, 5, 0, 8, 0, 4, 0, 1, 9>>, 50,
            <<"2", ".", "6", "7", "5">>),
      Float(0, <<1>>, 1, <<"0", ".", "5">>),
      Float(0, <<1>>, 3, <<"0", ".", "1", "2", "5">>),
      Float(0, <<0>>, 0, <<"0", ".", "0">>),
      Float(0, <<5, 7, 6, 4, 6, 0, 7, 5, 2, 3, 0, 3, 4, 2, 3, 5>>, 62,
            <<"0", ".", "0", "0", "1", "2", "5">>),
      Float(0, <<4, 1, 1, 3, 5, 8, 7, 8, 9, 9, 6, 4, 0, 2, 1, 1>>, 53,
            <<"0", ".", "4", "5", "6", "7">>),
      Float(1, <<2, 2, 5, 7, 4, 2, 9, 3, 1, 3, 2, 1, 9, 4, 6, 1>>, 50,
            <<"-", "2", ".", "0", "0", "5">>),
      Float(0, <<1>> \o Repeat(0, 16) \o <<4, 7, 6, 4, 7, 2, 9, 3, 4, 4>>, 0,
            <<"1", "e", "+", "2", "6">>) }

Timedeltas ==
    { Timedelta(0, 0), Timedelta(1, 7384), Timedelta(0 - 1, 86399),
      Timedelta(2, 59), Timedelta(0, 3600) }

Days ==
    { <<2023, 12, 31>>, <<2024, 1, 1>>, <<2024, 2, 29>>, <<2024, 3, 5>>,
      <<2024, 3, 10>>, <<2024, 11, 3>> }

Hours == {0, 1, 2, 8, 12, 13, 23}

Minutes == {0, 30}

TzOffsets == {0 - 300, 0, 330, 540}

NaiveDatetimes ==
    {Naive(d[1], d[2], d[3], h, m, fold) :
        d \in Days, h \in Hours, m \in Minutes, fold \in {0, 1}}

AwareDatetimes ==
    {Aware(d[1], d[2], d[3], h, m, off) :
        d \in Days, h \in Hours, m \in Minutes, off \in TzOffsets}

Dates == {Date(d[1], d[2], d[3]) : d \in Days}

\* a few values of every type, given to every field
Misc ==
    {StrValue(s) : s \in NamedTexts \cup {<<>>, <<"0">>}}
        \cup {IntValue(n) : n \in Ints}
        \cup {BoolValue(TRUE), BoolValue(FALSE), None}
        \cup {DecimalValue(Dec(0, <<0>>, 0)), DecimalValue(Dec(1, <<4, 5>>, 0 - 1)),
              DecimalValue(Dec(0, <<1>>, 26))}
        \cup Floats \cup Timedeltas
        \cup {Aware(2024, 3, 5, 13, 30, 0), Naive(2024, 3, 5, 13, 30, 0),
              Date(2024, 3, 5)}

Numbers ==
    {DecimalValue(d) : d \in Decimals}
        \cup {StrValue(DecimalText(d)) : d \in Decimals}

ValuesOf(kind) ==
    Misc \cup
    CASE kind \in {"monetary", "percentage"} -> Numbers
      [] kind = "date" -> NaiveDatetimes \cup AwareDatetimes \cup Dates
      [] kind = "masked" -> {StrValue(s) : s \in Texts}
      [] OTHER -> {}

ToRepresentation(kind, value) ==
    [op |-> "to_representation", kind |-> kind, value |-> value]

ToInternal(kind, data) ==
    [op |-> "to_internal_value", kind |-> kind, value |-> data]

\* every call of the model
Calls ==
    {ToRepresentation(kind, v) : kind \in {"monetary"}, v \in ValuesOf("monetary")}
        \cup {ToRepresentation(kind, v) : kind \in {"percentage"}, v \in ValuesOf("percentage")}
        \cup {ToRepresentation(kind, v) : kind \in {"date"}, v \in ValuesOf("date")}
        \cup {ToRepresentation(kind, v) : kind \in {"masked"}, v \in ValuesOf("masked")}
        \cup {ToRepresentation(kind, v) : kind \in {"boolean", "duration", "formatted"}, v \in Misc}
        \cup {ToInternal(kind, v) : kind \in Kinds, v \in Misc}

\* the calls of a run of several calls
FewCalls ==
    { ToRepresentation("date", Aware(2024, 3, 5, 13, 30, 0)),
      ToRepresentation("date", Naive(2024, 3, 10, 2, 30, 0)),
      ToRepresentation("date", StrValue(<<>>)),
      ToRepresentation("monetary", StrValue(<<"2", ".", "0", "0", "5">>)),
      ToRepresentation("monetary", StrValue(<<>>)),
      ToRepresentation("percentage", StrValue(<<".", "5">>)),
      ToRepresentation("masked", StrValue(<<"2", ".", "0", "0", "5">>)),
      ToRepresentation("boolean", BoolValue(FALSE)),
      ToRepresentation("boolean", StrValue(<<>>)),
      ToRepresentation("duration", Timedelta(1, 7384)),
      ToRepresentation("formatted", BoolValue(FALSE)),
      ToInternal("date", StrValue(<<"s">>)),
      ToInternal("monetary", StrValue(<<"2", ".", "0", "0", "5">>)) }

\* a zone of one offset
FixedZone(offset) == [std |-> offset, dst |-> offset, start |-> 0, end |-> 0]

\* the instant of a UTC wall clock
Utc(y, m, d, hour, minute) == (Ymd2Ord(y, m, d) - 1) * 1440 + hour * 60 + minute

\* America/New_York over the days of the model: UTC-5, and UTC-4 from
\* 2024-03-10 07:00 UTC to 2024-11-03 06:00 UTC
NewYork ==
    [std |-> 0 - 300, dst |-> 0 - 240,
     start |-> Utc(2024, 3, 10, 7, 0), end |-> Utc(2024, 11, 3, 6, 0)]

\* the system local zones: UTC, a fixed UTC-5, Asia/Kolkata, America/New_York
LocalZones == {FixedZone(0), FixedZone(0 - 300), FixedZone(330), NewYork}

(***************************************************************************)
(* The calls                                                               *)
(***************************************************************************)
NoCall == [op |-> "none"]

NoResult == [ok |-> FALSE, exc |-> "(no outcome yet)"]

\* the serialization layer calls a field
Invoke ==
    /\ pc = "idle"
    /\ Len(log) < MaxCalls
    /\ \E c \in FewCalls : call' = c
    /\ pc' = "called"
    /\ UNCHANGED <<zone, result, log>>

\* to_representation of a field of each class runs to its end
FormattedFieldSerializer_to_representation ==
    /\ pc = "called"
    /\ call.op = "to_representation"
    /\ call.kind = "formatted"
    /\ result' = to_representation("formatted", call.value, zone)
    /\ pc' = "returned"
    /\ UNCHANGED <<zone, call, log>>

MonetaryFieldSerializer_to_representation ==
    /\ pc = "called"
    /\ call.op = "to_representation"
    /\ call.kind = "monetary"
    /\ result' = to_representation("monetary", call.value, zone)
    /\ pc' = "returned"
    /\ UNCHANGED <<zone, call, log>>

DateFieldSerializer_to_representation ==
    /\ pc = "called"
    /\ call.op = "to_representation"
    /\ call.kind = "date"
    /\ result' = to_representation("date", call.value, zone)
    /\ pc' = "returned"
    /\ UNCHANGED <<zone, call, log>>

MaskedFieldSerializer_to_representation ==
    /\ pc = "called"
    /\ call.op = "to_representation"
    /\ call.kind = "masked"
    /\ result' = to_representation("masked", call.value, zone)
    /\ pc' = "returned"
    /\ UNCHANGED <<zone, call, log>>

PercentageFieldSerializer_to_representation ==
    /\ pc = "called"
    /\ call.op = "to_representation"
    /\ call.kind = "percentage"
    /\ result' = to_representation("percentage", call.value, zone)
    /\ pc' = "returned"
    /\ UNCHANGED <<zone, call, log>>

BooleanFieldSerializer_to_representation ==
    /\ pc = "called"
    /\ call.op = "to_representation"
    /\ call.kind = "boolean"
    /\ result' = to_representation("boolean", call.value, zone)
    /\ pc' = "returned"
    /\ UNCHANGED <<zone, call, log>>

DurationFieldSerializer_to_representation ==
    /\ pc = "called"
    /\ call.op = "to_representation"
    /\ call.kind = "duration"
    /\ result' = to_representation("duration", call.value, zone)
    /\ pc' = "returned"
    /\ UNCHANGED <<zone, call, log>>

\* a to_internal_value that sets the local zone of the process to UTC, as a
\* call of time.tzset would; C10 fails of it
ToInternalValueSettingZone ==
    /\ pc = "called"
    /\ call.op = "to_internal_value"
    /\ result' = to_internal_value(call.value)
    /\ pc' = "returned"
    /\ zone' = FixedZone(0)
    /\ UNCHANGED <<call, log>>

\* to_internal_value runs to its end
ToInternalValue ==
    /\ pc = "called"
    /\ call.op = "to_internal_value"
    /\ result' = to_internal_value(call.value)
    /\ pc' = "returned"
    /\ UNCHANGED <<zone, call, log>>

\* the outcome reaches the caller
Return ==
    /\ pc = "returned"
    /\ log' = Append(log, [call |-> call, result |-> result])
    /\ call' = NoCall
    /\ result' = NoResult
    /\ pc' = "idle"
    /\ UNCHANGED zone

Run ==
    \/ FormattedFieldSerializer_to_representation
    \/ MonetaryFieldSerializer_to_representation
    \/ DateFieldSerializer_to_representation
    \/ MaskedFieldSerializer_to_representation
    \/ PercentageFieldSerializer_to_representation
    \/ BooleanFieldSerializer_to_representation
    \/ DurationFieldSerializer_to_representation
    \/ ToInternalValue

\* one call, of any field on any value, in any local zone
Init ==
    /\ zone \in LocalZones
    /\ call \in Calls
    /\ pc = "called"
    /\ result = NoResult
    /\ log = <<>>

Next == Run

Spec == Init /\ [][Next]_vars

\* up to MaxCalls calls, one after the other
InitCalls ==
    /\ zone \in LocalZones
    /\ call = NoCall
    /\ pc = "idle"
    /\ result = NoResult
    /\ log = <<>>

NextCalls == Invoke \/ Run \/ Return

SpecCalls == InitCalls /\ [][NextCalls]_vars

(***************************************************************************)
(* The properties                                                          *)
(***************************************************************************)
\* to_representation of a field of the kind has run to its end
Returned(kind) ==
    pc = "returned" /\ call.op = "to_representation" /\ call.kind = kind

\* the decimal number that a value denotes: a Decimal itself, a text as Decimal
\* reads it, a float as its repr shows it, an int
Denoted(value) ==
    CASE value.t = "Decimal" -> Ok(value.d)
      [] value.t = "str"     -> DecimalFromStr(value.s)
      [] value.t = "float"   -> DecimalFromStr(value.repr)
      [] value.t = "int"     -> Ok(DecimalFromInt(value.n))
      [] OTHER               -> Raise("TypeError")

FiniteNumber(value) == Denoted(value).ok /\ ~IsSpecial(Denoted(value).v)

\* d with two fractional digits, a half rounded away from zero
HalfUpText(d, grouped) == FormatF2(Rescale(d, 0 - 2, TRUE), grouped)

\* C1: the monetary formatter renders every amount, whether a decimal, a text
\* or a number carries it, as "$" and the amount rounded half-up to two
\* fractional digits, so that 2.005 gives "$2.01" and 1234.565 "$1,234.57".
C1_MonetaryRoundsHalfUp ==
    (Returned("monetary") /\ FiniteNumber(call.value) /\ result.ok)
        => result.v = <<"$">> \o HalfUpText(Denoted(call.value).v, TRUE)

\* s is "$", an optional "-", digits in groups of three that "," separates, ".",
\* and two digits
MoneyShape(s) ==
    LET n     == Len(s)
        first == IF n >= 2 /\ s[2] = "-" THEN 3 ELSE 2
    IN  /\ n >= first + 3
        /\ s[1] = "$"
        /\ s[n - 2] = "."
        /\ IsDigitChar(s[n - 1]) /\ IsDigitChar(s[n])
        /\ IsDigitChar(s[first])
        /\ \A i \in first..(n - 3) :
               IF (n - 2 - i) % 4 = 0 THEN s[i] = "," ELSE IsDigitChar(s[i])

\* C2: for every finite decimal, of any sign and magnitude, the monetary
\* formatter returns "$", the integer part in groups of three, one decimal point
\* and two digits.
C2_MonetaryShape ==
    (Returned("monetary") /\ FiniteNumber(call.value))
        => result.ok /\ MoneyShape(result.v)

\* C3: the percentage formatter returns a hundred times the decimal it is
\* given, rounded half-up to two fractional digits, and "%".
C3_PercentageRoundsHalfUp ==
    (Returned("percentage") /\ FiniteNumber(call.value) /\ call.value.t # "float")
        => result = Ok(HalfUpText(Dec(Denoted(call.value).v.sign,
                                      Denoted(call.value).v.int,
                                      Denoted(call.value).v.exp + 2), FALSE)
                           \o <<"%">>)

NonNumericTexts ==
    { <<"s", "e", "c", "r", "e", "t">>, <<"f", "a", "l", "s", "e">>, <<"n", "o">>,
      <<"T", "r", "u", "e">>, <<"a", "b", "c">>, <<"1", "2", "a">> }

\* the value is not of the type that the field formats
NotCoercible(kind, value) ==
    \/ /\ kind \in {"monetary", "percentage"}
       /\ value.t = "str"
       /\ value.s \in NonNumericTexts
    \/ /\ kind = "date"
       /\ value.t \notin {"datetime", "date"}

\* C4: a call on a value that cannot be coerced, a text that is no number for
\* the monetary and percentage formatters, a value that is no date for the date
\* formatter, raises InvalidValueError and nothing else.
C4_RaisesInvalidValueError ==
    (/\ pc = "returned"
     /\ call.op = "to_representation"
     /\ NotCoercible(call.kind, call.value))
        => ~result.ok /\ result.exc = "InvalidValueError"

\* zero, a negative amount, the empty text
EdgeValues ==
    { IntValue(0), DecimalValue(Dec(0, <<0>>, 0)), IntValue(0 - 1), IntValue(0 - 45),
      DecimalValue(Dec(1, <<4, 5>>, 0 - 1)), StrValue(<<>>) }

\* C5: the formatters return a string for zero, for a negative amount and for
\* the empty text: so do, of the six, the monetary, the percentage and the masked
\* formatter.
C5_EdgeValuesFormatted ==
    (/\ pc = "returned"
     /\ call.op = "to_representation"
     /\ call.kind \in {"monetary", "percentage", "masked"}
     /\ call.value \in EdgeValues)
        => result.ok

\* C6 as the specification states it: the masked formatter returns a text in
\* which no character of the text of the value appears.
C6_NoCharacterAppears ==
    (Returned("masked") /\ result.ok)
        => \A i \in 1..Len(Str(call.value)) : \A j \in 1..Len(result.v) :
               result.v[j] # Str(call.value)[i]

\* C6: the masked formatter returns as many characters as the text of the value
\* has, each of them "*", so that no character of the value other than "*"
\* appears: "secret" gives "******", the int 12345 "*****", the empty text "".
C6_MaskedLength ==
    Returned("masked")
        => /\ result.ok
           /\ Len(result.v) = Len(Str(call.value))
           /\ \A j \in 1..Len(result.v) : result.v[j] = "*"
           /\ call.value.t = "str" => Len(result.v) = Len(call.value.s)
           /\ call.value = IntValue(12345) => result.v = <<"*", "*", "*", "*", "*">>
           /\ call.value = StrValue(<<"s", "e", "c", "r", "e", "t">>)
                  => result.v = <<"*", "*", "*", "*", "*", "*">>

\* the int 12345 has been masked
C6_Witness ==
    /\ Returned("masked")
    /\ call.value = IntValue(12345)
    /\ result = Ok(<<"*", "*", "*", "*", "*">>)

\* v and w, both with tzinfo, are the same instant
SameInstant(v, w) ==
    WallMinutes(v) - v.utcoffset = WallMinutes(w) - w.utcoffset

\* C7: in one local zone, the date formatter returns the same text for two
\* datetimes with tzinfo that are the same instant, whatever their UTC offsets
\* and the days on which their own clocks put it.
C7_SameInstantSameText ==
    (Returned("date") /\ call.value.t = "datetime" /\ call.value.aware)
        => \A w \in AwareDatetimes :
               SameInstant(call.value, w)
                   => DateFieldSerializer_formatter(w, zone) = result

\* 08:00 of 2024-01-01 at UTC+9 has been formatted in America/New_York, as
\* 23:00 of 2023-12-31 at UTC is
C7_Witness ==
    /\ Returned("date")
    /\ zone = NewYork
    /\ call.value = Aware(2024, 1, 1, 8, 0, 540)
    /\ Aware(2023, 12, 31, 23, 0, 0) \in AwareDatetimes
    /\ SameInstant(call.value, Aware(2023, 12, 31, 23, 0, 0))
    /\ result = Ok(<<"D", "e", "c", " ", "3", "1", " ", "2", "0", "2", "3", " ",
                     "a", "t", " ", "0", "6", ":", "0", "0", " ", "P", "M">>)

\* C8: the date formatter renders a datetime without tzinfo as its clock shows
\* it, unshifted, and 13:30 of 2024-03-05 at UTC, in a local zone at UTC-5, as
\* "Mar 05 2024 at 08:30 AM".
C8_NaiveUnshifted ==
    (Returned("date") /\ call.value.t = "datetime")
        => /\ ~call.value.aware => result = Ok(Strftime(call.value))
           /\ (call.value = Aware(2024, 3, 5, 13, 30, 0)
                   /\ zone \in {FixedZone(0 - 300), NewYork})
                  => result = Ok(<<"M", "a", "r", " ", "0", "5", " ", "2", "0", "2",
                                   "4", " ", "a", "t", " ", "0", "8", ":", "3", "0",
                                   " ", "A", "M">>)

\* C9: the boolean formatter returns "True" for the flag true, "False" for the
\* flag false and no other text for any value; the texts "false", "0" and "no"
\* are not rendered as the flag false: they give "True".
C9_BooleanLiterals ==
    Returned("boolean")
        => /\ result \in {Ok(<<"T", "r", "u", "e">>), Ok(<<"F", "a", "l", "s", "e">>)}
           /\ call.value = BoolValue(TRUE) => result.v = <<"T", "r", "u", "e">>
           /\ call.value = BoolValue(FALSE) => result.v = <<"F", "a", "l", "s", "e">>
           /\ (/\ call.value.t = "str"
               /\ call.value.s \in {<<"f", "a", "l", "s", "e">>, <<"0">>, <<"n", "o">>})
                  => result.v = <<"T", "r", "u", "e">>

\* the text "false" has been formatted
C9_Witness ==
    /\ Returned("boolean")
    /\ call.value = StrValue(<<"f", "a", "l", "s", "e">>)
    /\ result = Ok(<<"T", "r", "u", "e">>)

SameCallSameOutcome ==
    /\ \A i, j \in 1..Len(log) :
           log[i].call = log[j].call => log[i].result = log[j].result
    /\ pc = "returned"
           => \A i \in 1..Len(log) : log[i].call = call => log[i].result = result

\* no call changes the value it is given or the local zone of the process
NothingMutated ==
    /\ zone' = zone
    /\ pc = "called" => call' = call

====
